---- MODULE Spec2Model ----
(***************************************************************************)
(* time-to-k8s: the iteration runner of the configurable variant           *)
(* (src/unnamed/part_000; part_001 is the same program without the CPU     *)
(* sampler and the --output flag).                                         *)
(*                                                                         *)
(*   Run          one external command, one call of cmd.Run()              *)
(*   RetryRun     the retry loop around Run                                *)
(*   runIteration the nine commands of one test case, one action each      *)
(*   main         the header row, the teardown swept, the iterations 0..N, *)
(*                the CSV rows                                             *)
(*   the two goroutines of runIteration: the CPU sampler and the drainer   *)
(*   of the sampler's channel                                              *)
(*                                                                         *)
(* Time is counted in ticks of 0.4 ms.  The environment (how an external   *)
(* command behaves) is an input: every call of Run or RetryRun draws the   *)
(* behaviour of its command from a small set.                              *)
(***************************************************************************)
EXTENDS Integers, Sequences, FiniteSets, TLC

(***************************************************************************)
(* Bounds of the model.                                                    *)
(***************************************************************************)
\* how many times in one execution the environment may deviate from the nominal one
\* (a command that is slow, flaky or broken; the deadline of a run firing)
MaxFaulty == 1
\* the most failing attempts before a flaky command of the whole program succeeds
MaxTransient == 1
\* the most failing attempts before a command given to RetryRun alone succeeds
MaxFails == 3
\* the most fragments a binary name given to the argument builder is made of
MaxParts == 3
\* the most invocations of runIteration an execution without failures makes
MaxInvocations == 4
\* the longest API-ready phase of the hard-coded variant the model follows, in ticks
MaxRunning == 4
\* the values of the --iterations flag
IterationCounts == {0, 1, 2}

\* the attempt ceiling of RetryRun
AttemptCeiling == 5000

\* the names a configuration may use as test cases (keys of dc.TestCases)
Names == {"kind", "minikube"}
\* durations of one attempt, in ticks
DurSet == {0, 1, 2}
\* non-zero exit codes a command may exit with
ExitCodes == {1, 2}

(***************************************************************************)
(* The environment: the behaviour of one external command over its         *)
(* successive attempts.  A broken command never succeeds; any other        *)
(* command fails `fails` times and then succeeds.  A failing attempt       *)
(* either exits with a non-zero code ("exit") or cannot be started at all  *)
(* ("start": binary not found, fork failure); "mixed" alternates the two.  *)
(***************************************************************************)
Behaviours ==
  [broken : {FALSE}, fails : 0..MaxFails, failKind : {"exit", "start", "mixed"},
   code : ExitCodes, dFail : DurSet, dAlt : DurSet, dOk : DurSet]
  \cup
  [broken : {TRUE}, fails : {0}, failKind : {"exit", "start", "mixed"},
   code : ExitCodes, dFail : DurSet, dAlt : DurSet, dOk : {1}]

\* the command that succeeds at once, in one tick
Nominal ==
  [broken |-> FALSE, fails |-> 0, failKind |-> "exit", code |-> 1,
   dFail |-> 1, dAlt |-> 1, dOk |-> 1]

\* whether attempt number n (from 0) of a command behaving as b fails
Fails(b, n) == b.broken \/ n < b.fails

\* what attempt number n (from 0) of a command behaving as b does
Outcome(b, n) ==
  IF ~Fails(b, n)
  THEN [kind |-> "ok", code |-> 0, dur |-> b.dOk]
  ELSE [kind |-> IF b.failKind = "mixed"
                 THEN (IF n % 2 = 0 THEN "start" ELSE "exit")
                 ELSE b.failKind,
        code |-> b.code,
        dur  |-> IF n % 2 = 0 THEN b.dFail ELSE b.dAlt]

(***************************************************************************)
(* Run: one call of cmd.Run().  `bound` says the command was built with    *)
(* exec.CommandContext, `done` that its context is already done: such a    *)
(* command is not started.  Only an *exec.ExitError sets ExitCode; the     *)
(* duration is set on every path.  `spawned` counts the processes started. *)
(***************************************************************************)
Run(bound, done, o) ==
  IF bound /\ done
  THEN [ExitCode |-> 0, Duration |-> o.dur, err |-> "ctx", spawned |-> 0]
  ELSE [ExitCode |-> IF o.kind \in {"exit", "killed"} THEN o.code ELSE 0,
        Duration |-> o.dur,
        err      |-> IF o.kind = "ok" THEN "nil" ELSE o.kind,
        spawned  |-> IF o.kind = "start" THEN 0 ELSE 1]

(***************************************************************************)
(* RetryRun.  The loop state: rr and err as the code's variables,          *)
(* duration, attempts; `returned` once a return statement was reached;     *)
(* runs and spawned count the calls of Run and the processes started.      *)
(***************************************************************************)
RetryInit ==
  [ExitCode |-> 0, Duration |-> 0, err |-> "nil", duration |-> 0, attempts |-> 0,
   returned |-> FALSE, runs |-> 0, spawned |-> 0]

\* A deviating variant, for sensitivity: the loop condition admitting one attempt more
RetryGuardInclusive(s) == s.attempts <= AttemptCeiling

\* the loop condition of RetryRun
RetryGuard(s) == s.attempts < AttemptCeiling

\* A deviating variant, for sensitivity: the body returning the duration of the last attempt alone
RetryBodyLastDuration(b, s) ==
  IF s.returned THEN s
  ELSE IF ~RetryGuard(s)
  THEN [s EXCEPT !.returned = TRUE]
  ELSE LET r == Run(FALSE, FALSE, Outcome(b, s.runs))
       IN [ExitCode |-> r.ExitCode,
           Duration |-> r.Duration,
           err      |-> r.err,
           duration |-> s.duration + r.Duration,
           attempts |-> IF r.err = "nil" THEN s.attempts ELSE s.attempts + 1,
           returned |-> r.err = "nil",
           runs     |-> s.runs + 1,
           spawned  |-> s.spawned + r.spawned]

\* One pass of the loop: the condition, then the body.  Every attempt is a new
\* command built by exec.Command: it is bound to no context.
RetryBody(b, s) ==
  IF s.returned THEN s
  ELSE IF ~RetryGuard(s)
  THEN [s EXCEPT !.returned = TRUE]
  ELSE LET r == Run(FALSE, FALSE, Outcome(b, s.runs))
           d == s.duration + r.Duration
       IN [ExitCode |-> r.ExitCode,
           Duration |-> d,
           err      |-> r.err,
           duration |-> d,
           attempts |-> IF r.err = "nil" THEN s.attempts ELSE s.attempts + 1,
           returned |-> r.err = "nil",
           runs     |-> s.runs + 1,
           spawned  |-> s.spawned + r.spawned]

\* n passes of the loop, in order; the passes are split in two halves so that the
\* evaluation does not nest AttemptCeiling deep.
RECURSIVE RetryPasses(_, _, _)
RetryPasses(b, s, n) ==
  IF s.returned \/ n = 0 THEN s
  ELSE IF n = 1 THEN RetryBody(b, s)
  ELSE LET h == n \div 2
       IN RetryPasses(b, RetryPasses(b, s, h), n - h)

\* The loop run until it returns.  The passes allowed are more than any run of the
\* loop needs: the result has returned = TRUE.
RetryLoop(b) == RetryPasses(b, RetryInit, 2 * AttemptCeiling + 2)

(***************************************************************************)
(* The behaviours the commands of the whole program draw from.             *)
(***************************************************************************)
Menu ==
  {Nominal}
  \cup {[Nominal EXCEPT !.dOk = d] : d \in DurSet}
  \cup {[Nominal EXCEPT !.fails = k, !.failKind = "mixed", !.dAlt = 2] : k \in 1..MaxTransient}
  \cup {[Nominal EXCEPT !.broken = TRUE, !.code = c] : c \in ExitCodes}
  \cup {[Nominal EXCEPT !.broken = TRUE, !.failKind = "start"]}

\* RetryRun(cmd); its results for the behaviours of the menu are computed once
RetryTable == [b \in Menu |-> RetryLoop(b)]
RetryRun(b) == IF b \in DOMAIN RetryTable THEN RetryTable[b] ELSE RetryLoop(b)

(***************************************************************************)
(* The state of the program.                                               *)
(***************************************************************************)
VARIABLES
  iterationCount, \* the --iterations flag
  testCases,      \* the keys of dc.TestCases
  pc,             \* where main is: "header", "sweep", "loop", "range", "run" (in runIteration),
                  \* "deferred" (in its deferred function), "returned", "done", "exited"
  i,              \* the iteration index of main's loop
  todo,           \* the keys the current range loop over dc.TestCases has not visited
  name,           \* the test case of the current runIteration invocation
  step,           \* the command runIteration calls next
  e,              \* the ExperimentResult of the current invocation
  err,            \* the error the current invocation returned
  ctxDone,        \* the invocation's context is done (deadline fired, or cancel called)
  rr,             \* the result of the last call of Run or RetryRun
  csv,            \* the data rows the output file holds, in order
  faulty,         \* how often the environment has deviated from the nominal one so far
  cmds,           \* the commands the current invocation has called, in order, with results
                  \* and the processes each call spawned
  history,        \* the invocations that reached a return statement: name, iteration,
                  \* error, failing command
  untorn,         \* test cases whose setup was spawned and whose teardown was not called since
  aborted,        \* test cases whose latest invocation returned before its teardown
  binary,         \* setup[0] of the current invocation, as a sequence of characters
  swept,          \* how many calls of Run the quick cleanup loop has made for each name
  header,         \* how many header rows the output file holds
  buf,            \* the rows written to the csv.Writer and not flushed to the file
  sampler,        \* the goroutine around cr.Run(ctx): where it is, and the Total it read
  drainer         \* the goroutine draining cr.C(): "idle", "draining", "done"

vars ==
  <<iterationCount, testCases, pc, i, todo, name, step, e, err, ctxDone, rr, csv,
    faulty, cmds, history, untorn, aborted, binary, swept, header, buf, sampler, drainer>>

\* the variables of the goroutines, and those of the output besides the data rows
routines == <<sampler, drainer>>
output == <<header, buf>>

\* the commands of runIteration, in the order of the source
Commands ==
  <<"version", "setup", "getpo", "getsvc", "getdns", "apply", "nc", "nslookup", "teardown">>

\* the position of command c in the source
Pos(c) == CHOOSE k \in 1..Len(Commands) : Commands[k] = c

\* the commands called through RetryRun
Retried == {"getpo", "getsvc", "getdns", "apply", "nc", "nslookup", "teardown"}

\* the commands built with exec.CommandContext(ctx, ...) and handed to Run as built
ContextBound == {"version", "setup"}

\* the kubectl commands: every command between setup and teardown
Kubectl == {"getpo", "getsvc", "getdns", "apply", "nc", "nslookup"}

(***************************************************************************)
(* The arguments of the kubectl commands.  A string the code searches is a *)
(* sequence of characters; strings.Contains is the search for a            *)
(* contiguous subsequence.                                                 *)
(***************************************************************************)
Kind == <<"k", "i", "n", "d">>
Minikube == <<"m", "i", "n", "i", "k", "u", "b", "e">>
K3d == <<"k", "3", "d">>

\* strings.Contains(s, sub)
Contains(s, sub) ==
  \E k \in 0..(Len(s) - Len(sub)) : SubSeq(s, k + 1, k + Len(sub)) = sub

\* A deviating variant, for sensitivity: each match adding its pair to the arguments
ExtraArgsAppending(bin) ==
  (IF Contains(bin, Kind) THEN <<"--context", "kind-kind">> ELSE <<>>)
  \o (IF Contains(bin, Minikube) THEN <<"--context", "minikube">> ELSE <<>>)
  \o (IF Contains(bin, K3d) THEN <<"--context", "k3d-k3s-default">> ELSE <<>>)

\* extraArgs after the three if statements, each of which assigns the whole slice
ExtraArgs(bin) ==
  LET a0 == <<>>
      a1 == IF Contains(bin, Kind) THEN <<"--context", "kind-kind">> ELSE a0
      a2 == IF Contains(bin, Minikube) THEN <<"--context", "minikube">> ELSE a1
      a3 == IF Contains(bin, K3d) THEN <<"--context", "k3d-k3s-default">> ELSE a2
  IN a3

\* what each kubectl command appends to extraArgs
OwnArgs(c) ==
  CASE c = "getpo"    -> <<"get", "po", "-A">>
    [] c = "getsvc"   -> <<"get", "svc", "kubernetes">>
    [] c = "getdns"   -> <<"get", "svc", "kube-dns", "-n", "kube-system">>
    [] c = "apply"    -> <<"apply", "-f", "manifests/netcat-svc.yaml">>
    [] c = "nc"       -> <<"exec", "deployment/netcat", "--", "nc", "-v", "localhost", "8080">>
    [] c = "nslookup" -> <<"exec", "deployment/netcat", "--", "nslookup", "netcat.default">>

\* the arguments command c is built with: append(extraArgs, ...) for a kubectl
\* command; those of the other commands come from the configuration
Args(c, bin) ==
  CASE c \in Kubectl  -> ExtraArgs(bin) \o OwnArgs(c)
    [] c = "version"  -> <<"version">>
    [] OTHER          -> <<>>

\* setup[0] of the test cases of the configuration
Config(n) ==
  CASE n = "kind"     -> Kind
    [] n = "minikube" -> Minikube
    [] OTHER          -> <<>>

\* A deviating variant, for sensitivity: the manifest applied before the services are looked up
StepAfterSwapped(c) ==
  CASE c = "getpo"  -> "apply"
    [] c = "apply"  -> "getsvc"
    [] c = "getdns" -> "nc"
    [] OTHER        -> IF Pos(c) < Len(Commands) THEN Commands[Pos(c) + 1] ELSE "return"

\* A deviating variant, for sensitivity: the invocation returning without its teardown
StepAfterNoTeardown(c) == IF Pos(c) < Len(Commands) - 1 THEN Commands[Pos(c) + 1] ELSE "return"

\* the command runIteration calls after command c succeeded ("return" after the last)
StepAfter(c) == IF Pos(c) < Len(Commands) THEN Commands[Pos(c) + 1] ELSE "return"

\* ExperimentResult{Name: name, ...}: every other field has its zero value
NewResult(n) ==
  [Name |-> n, Version |-> "", Startup |-> 0, APIAnswering |-> 0, KubernetesSvc |-> 0,
   DNSSvc |-> 0, AppRunning |-> 0, DNSAnswering |-> 0, Total |-> 0, ExitCode |-> 0,
   Error |-> "", CPUTime |-> 0]

\* no invocation is running: the value of the variables that are local to one
NoResult == NewResult("")
NoRun == [ExitCode |-> 0, Duration |-> 0, err |-> "nil", runs |-> 0, spawned |-> 0,
          cmd |-> "none", b |-> Nominal]

\* no invocation is running: the goroutines do not exist
NoSampler == [at |-> "idle", total |-> 0]

\* cr.Run(ctx).Busy, the share of the CPU the sampler found busy, in percent
Busy == 50

\* time.Duration(Busy * float64(total.Nanoseconds()))
CPUTimeOf(total) == (Busy * total) \div 100

\* A deviating variant, for sensitivity: the TCP probe's duration replacing the manifest's instead of adding to it
StoreOverwriting(c, x, r) ==
  CASE c = "version"  -> [x EXCEPT !.Version = "v1"]
    [] c = "setup"    -> [x EXCEPT !.Startup = r.Duration]
    [] c = "getpo"    -> [x EXCEPT !.APIAnswering = r.Duration]
    [] c = "getsvc"   -> [x EXCEPT !.KubernetesSvc = r.Duration]
    [] c = "getdns"   -> [x EXCEPT !.DNSSvc = r.Duration]
    [] c = "apply"    -> [x EXCEPT !.AppRunning = r.Duration]
    [] c = "nc"       -> [x EXCEPT !.AppRunning = r.Duration]
    [] c = "nslookup" ->
         [x EXCEPT !.DNSAnswering = r.Duration,
                   !.Total = x.Startup + x.APIAnswering + x.KubernetesSvc + x.DNSSvc
                             + x.AppRunning + r.Duration]
    [] c = "teardown" -> x

\* A deviating variant, for sensitivity: Total kept up to date after every command
StoreRunningTotal(c, x, r) ==
  CASE c = "version"  -> [x EXCEPT !.Version = "v1"]
    [] c = "setup"    -> [x EXCEPT !.Startup = r.Duration, !.Total = x.Total + r.Duration]
    [] c = "getpo"    -> [x EXCEPT !.APIAnswering = r.Duration, !.Total = x.Total + r.Duration]
    [] c = "getsvc"   -> [x EXCEPT !.KubernetesSvc = r.Duration, !.Total = x.Total + r.Duration]
    [] c = "getdns"   -> [x EXCEPT !.DNSSvc = r.Duration, !.Total = x.Total + r.Duration]
    [] c = "apply"    -> [x EXCEPT !.AppRunning = r.Duration, !.Total = x.Total + r.Duration]
    [] c = "nc"       ->
         [x EXCEPT !.AppRunning = x.AppRunning + r.Duration, !.Total = x.Total + r.Duration]
    [] c = "nslookup" -> [x EXCEPT !.DNSAnswering = r.Duration, !.Total = x.Total + r.Duration]
    [] c = "teardown" -> x

\* what runIteration stores in e after command c succeeded with result r
Store(c, x, r) ==
  CASE c = "version"  -> [x EXCEPT !.Version = "v1"]
    [] c = "setup"    -> [x EXCEPT !.Startup = r.Duration]
    [] c = "getpo"    -> [x EXCEPT !.APIAnswering = r.Duration]
    [] c = "getsvc"   -> [x EXCEPT !.KubernetesSvc = r.Duration]
    [] c = "getdns"   -> [x EXCEPT !.DNSSvc = r.Duration]
    [] c = "apply"    -> [x EXCEPT !.AppRunning = r.Duration]
    [] c = "nc"       -> [x EXCEPT !.AppRunning = x.AppRunning + r.Duration]
    [] c = "nslookup" ->
         [x EXCEPT !.DNSAnswering = r.Duration,
                   !.Total = x.Startup + x.APIAnswering + x.KubernetesSvc + x.DNSSvc
                             + x.AppRunning + r.Duration]
    [] c = "teardown" -> x

\* err.Error() of fmt.Errorf("%s failed: %w", rr, err)
ErrorText(k) ==
  CASE k = "exit"   -> "failed: exit status"
    [] k = "killed" -> "failed: signal: killed"
    [] k = "start"  -> "failed: executable file not found"
    [] k = "ctx"    -> "failed: context deadline exceeded"

\* a command behaving as b may be drawn now
Allowed(b) == b = Nominal \/ faulty < MaxFaulty
Charge(b) == IF b = Nominal THEN faulty ELSE faulty + 1

\* A deviating variant, for sensitivity: every command called through RetryRun
CallRetryingAll(c, b) ==
  LET s == RetryRun(b)
  IN [ExitCode |-> s.ExitCode, Duration |-> s.Duration, err |-> s.err,
      runs |-> s.runs, spawned |-> s.spawned, cmd |-> c, b |-> b]

\* the result of command c behaving as b: the first two commands are run once,
\* bound to the invocation's context; the others go through RetryRun
Call(c, b) ==
  IF c \in Retried
  THEN LET s == RetryRun(b)
       IN [ExitCode |-> s.ExitCode, Duration |-> s.Duration, err |-> s.err,
           runs |-> s.runs, spawned |-> s.spawned, cmd |-> c, b |-> b]
  ELSE LET r == Run(c \in ContextBound, ctxDone, Outcome(b, 0))
       IN [ExitCode |-> r.ExitCode, Duration |-> r.Duration, err |-> r.err,
           runs |-> 1, spawned |-> r.spawned, cmd |-> c, b |-> b]

(***************************************************************************)
(* main                                                                    *)
(***************************************************************************)
Init ==
  /\ iterationCount \in IterationCounts
  /\ testCases \in SUBSET Names
  /\ Cardinality(testCases) * (iterationCount + 1) <= MaxInvocations
  /\ pc = "header"
  /\ i = 0
  /\ todo = testCases
  /\ name = ""
  /\ step = "none"
  /\ e = NoResult
  /\ err = "nil"
  /\ ctxDone = FALSE
  /\ rr = NoRun
  /\ csv = <<>>
  /\ faulty = 0
  /\ cmds = <<>>
  /\ history = <<>>
  /\ untorn = {}
  /\ aborted = {}
  /\ binary = <<>>
  /\ swept = [n \in Names |-> 0]
  /\ header = 0
  /\ buf = <<>>
  /\ sampler = NoSampler
  /\ drainer = "idle"

\* the row of column titles
HeaderRow ==
  [name |-> "name", iteration |-> "iteration", version |-> "version",
   exitcode |-> "exitcode", error |-> "error", startup |-> "command exec (seconds)",
   apiserver |-> "apiserver answering (seconds)", kubernetes |-> "kubernetes svc (seconds)",
   dnssvc |-> "dns svc (seconds)", apprunning |-> "app running (seconds)",
   dnsanswering |-> "dns answering (seconds)", cputime |-> "cpu time (seconds)",
   total |-> "total duration (seconds)"]

\* The csv.Writer as the pair of the file's rows and the rows it buffers.
\* c.Write(row): the row joins the buffer
Write(w, row) == [w EXCEPT !.buf = Append(w.buf, row)]

\* A deviating variant, for sensitivity: the buffer left as it is
FlushNothing(w) == w

\* c.Flush(): the buffered rows reach the file
Flush(w) == [out |-> w.out \o w.buf, buf |-> <<>>]

\* c.Write(header); c.Flush(): before the cleanup loop
WriteHeader ==
  /\ pc = "header"
  /\ LET w == Flush(Write([out |-> <<>>, buf |-> buf], HeaderRow))
     IN /\ header' = header + Len(w.out)
        /\ buf' = w.buf
  /\ pc' = "sweep"
  /\ UNCHANGED <<iterationCount, testCases, i, todo, name, step, e, err, ctxDone, rr, csv,
                 faulty, cmds, history, untorn, aborted, binary, swept, routines>>

\* A deviating variant, for sensitivity: the range loop yielding keys it has yielded before
RangeRevisiting(all, left) == all

\* for name, tc := range dc.TestCases: the keys the loop may yield next, when the map
\* holds the keys all and the keys left were not yielded yet.  The order in which a
\* range over a map yields the keys is not specified, and differs from loop to loop.
Range(all, left) == left

\* A deviating variant, for sensitivity: the teardown of the cleanup loop retried, as in the hard-coded variant
CleanupCallRetrying(b) ==
  LET s == RetryRun(b)
  IN [ExitCode |-> s.ExitCode, Duration |-> s.Duration, err |-> s.err,
      runs |-> s.runs, spawned |-> s.spawned, cmd |-> "cleanup", b |-> b]

\* the call of the cleanup loop for a teardown behaving as b: one Run of a command
\* built by exec.Command, bound to no context
CleanupCall(b) ==
  LET r == Run(FALSE, FALSE, Outcome(b, 0))
  IN [ExitCode |-> r.ExitCode, Duration |-> r.Duration, err |-> r.err,
      runs |-> 1, spawned |-> r.spawned, cmd |-> "cleanup", b |-> b]

\* the quick cleanup loop: one call for each test case's teardown; its result and
\* its error are dropped by the code (rr keeps them here until the next call)
CleanupLoop ==
  /\ pc = "sweep"
  /\ \/ /\ todo # {}
        /\ \E n \in Range(testCases, todo), b \in Menu :
             /\ Allowed(b)
             /\ faulty' = Charge(b)
             /\ todo' = todo \ {n}
             /\ untorn' = untorn \ {n}
             /\ swept' = [swept EXCEPT ![n] = swept[n] + 1]
             /\ rr' = CleanupCall(b)
        /\ UNCHANGED <<pc, i>>
     \/ /\ todo = {}
        /\ pc' = "loop"
        /\ i' = 0
        /\ UNCHANGED <<todo, faulty, untorn, swept, rr>>
  /\ UNCHANGED <<iterationCount, testCases, name, step, e, err, ctxDone, csv, cmds,
                 history, aborted, binary, output, routines>>

\* A deviating variant, for sensitivity: the loop stopping one iteration early
LoopGuardStrict(k, n) == k < n

\* the condition of main's loop over the iterations
LoopGuard(k, n) == k <= n

\* for i := 0; i <= *iterationCount; ... : the loop condition, then the range loop begins
IterationLoop ==
  /\ pc = "loop"
  /\ IF LoopGuard(i, iterationCount)
     THEN pc' = "range" /\ todo' = testCases
     ELSE pc' = "done" /\ todo' = todo
  /\ UNCHANGED <<iterationCount, testCases, i, name, step, e, err, ctxDone, rr, csv,
                 faulty, cmds, history, untorn, aborted, binary, swept, output, routines>>

\* for name, tc := range dc.TestCases: the next key, in the order the map yields, and
\* the call of runIteration up to its first command: the context is made, e is
\* initialised, the two goroutines are started; after the last key, i++
RangeLoop ==
  /\ pc = "range"
  /\ \/ /\ todo # {}
        /\ \E n \in Range(testCases, todo) :
             /\ name' = n
             /\ todo' = todo \ {n}
             /\ e' = NewResult(n)
             /\ binary' = Config(n)
        /\ pc' = "run"
        /\ step' = Commands[1]
        /\ ctxDone' = FALSE
        /\ cmds' = <<>>
        /\ sampler' = [at |-> "sampling", total |-> 0]
        /\ drainer' = "draining"
        /\ UNCHANGED i
     \/ /\ todo = {}
        /\ i' = i + 1
        /\ pc' = "loop"
        /\ UNCHANGED <<todo, name, e, step, ctxDone, cmds, binary, routines>>
  /\ UNCHANGED <<iterationCount, testCases, err, rr, csv, faulty, history, untorn, aborted,
                 swept, output>>

(***************************************************************************)
(* runIteration                                                            *)
(***************************************************************************)
\* the test cases whose setup was spawned and not torn down, after command c gave r
Untorn(c, r) ==
  CASE c = "setup" /\ r.spawned > 0 -> untorn \cup {name}
    [] c = "teardown"               -> untorn \ {name}
    [] OTHER                        -> untorn

\* A deviating variant, for sensitivity: the failing command's duration stored before the error is looked at
FailedStoring(c, x, r) == [Store(c, x, r) EXCEPT !.ExitCode = r.ExitCode]

\* A deviating variant, for sensitivity: the error returned without the exit code being stored
FailedWithoutCode(c, x, r) == x

\* A deviating variant, for sensitivity: the error returned with an empty result
FailedErasing(c, x, r) == [NewResult(x.Name) EXCEPT !.ExitCode = r.ExitCode]

\* what runIteration stores in e after command c failed with result r
Failed(c, x, r) == [x EXCEPT !.ExitCode = r.ExitCode]

\* what follows the call of command c that gave result r: on an error e.ExitCode is
\* set and runIteration returns; otherwise e is filled in and the next command is due.
\* A return statement sets the results and enters the deferred function, whose
\* cancel() ends the context; its wg.Wait() is the action Return.
Continue(c, r, fired) ==
  /\ rr' = r
  /\ cmds' = Append(cmds, [cmd |-> c, Duration |-> r.Duration, err |-> r.err,
                           args |-> Args(c, binary), spawned |-> r.spawned])
  /\ untorn' = Untorn(c, r)
  /\ IF r.err # "nil"
     THEN /\ e' = Failed(c, e, r)
          /\ err' = r.err
          /\ pc' = "deferred"
          /\ step' = "none"
          /\ ctxDone' = TRUE
          /\ aborted' = IF c = "teardown" THEN aborted \ {name} ELSE aborted \cup {name}
          /\ history' = Append(history, [name |-> name, i |-> i, err |-> r.err, at |-> c])
     ELSE /\ e' = Store(c, e, r)
          /\ IF StepAfter(c) = "return"
             THEN /\ err' = "nil"
                  /\ pc' = "deferred"
                  /\ step' = "none"
                  /\ ctxDone' = TRUE
                  /\ aborted' = aborted \ {name}
                  /\ history' =
                       Append(history, [name |-> name, i |-> i, err |-> "nil", at |-> "none"])
             ELSE /\ step' = StepAfter(c)
                  /\ ctxDone' = fired
                  /\ UNCHANGED <<pc, err, aborted, history>>
  /\ UNCHANGED <<iterationCount, testCases, i, todo, name, csv, binary, swept, output,
                 routines>>

\* the call of command c, its behaviour drawn from the menu, and what follows it
Command(c) ==
  \E b \in Menu :
    /\ Allowed(b)
    /\ faulty' = Charge(b)
    /\ Continue(c, Call(c, b), ctxDone)

VersionProbe ==
  /\ pc = "run" /\ step = "version"
  /\ Command("version")

Startup ==
  /\ pc = "run" /\ step = "setup"
  /\ Command("setup")

APIAnswering ==
  /\ pc = "run" /\ step = "getpo"
  /\ Command("getpo")

KubernetesSvc ==
  /\ pc = "run" /\ step = "getsvc"
  /\ Command("getsvc")

DNSSvc ==
  /\ pc = "run" /\ step = "getdns"
  /\ Command("getdns")

AppRunning ==
  /\ pc = "run" /\ step = "apply"
  /\ Command("apply")

AppReachable ==
  /\ pc = "run" /\ step = "nc"
  /\ Command("nc")

DNSAnswering ==
  /\ pc = "run" /\ step = "nslookup"
  /\ Command("nslookup")

Teardown ==
  /\ pc = "run" /\ step = "teardown"
  /\ Command("teardown")

\* the deadline of context.WithTimeout fires between two commands
Deadline ==
  /\ pc = "run"
  /\ ~ctxDone
  /\ faulty < MaxFaulty
  /\ faulty' = faulty + 1
  /\ ctxDone' = TRUE
  /\ UNCHANGED <<iterationCount, testCases, pc, i, todo, name, step, e, err, rr, csv,
                 cmds, history, untorn, aborted, binary, swept, output, routines>>

\* the deadline fires while a context-bound command runs: its process is killed, and
\* cmd.Run() returns an *exec.ExitError whose ExitCode() is -1
Killed ==
  /\ pc = "run"
  /\ step \in ContextBound
  /\ ~ctxDone
  /\ faulty < MaxFaulty
  /\ faulty' = faulty + 1
  /\ \E d \in DurSet :
       LET r == Run(TRUE, FALSE, [kind |-> "killed", code |-> -1, dur |-> d])
       IN Continue(step, [ExitCode |-> r.ExitCode, Duration |-> r.Duration, err |-> r.err,
                          runs |-> 1, spawned |-> r.spawned, cmd |-> step, b |-> Nominal],
                   TRUE)

(***************************************************************************)
(* The goroutines of runIteration and its deferred function.  cr.Run(ctx)  *)
(* samples until ctx is done and then returns its result; the channel      *)
(* cr.C() is closed by then.  The goroutine reads e.Total and writes       *)
(* e.CPUTime with no synchronisation with the commands of runIteration: a  *)
(* read concurrent with the assignment of e.Total yields the value before  *)
(* or the value after it, which is the order of the two steps here.        *)
(***************************************************************************)
\* cr.Run(ctx) has returned, and e.Total is read
SamplerRead ==
  /\ pc \in {"run", "deferred"}
  /\ sampler.at = "sampling"
  /\ ctxDone
  /\ sampler' = [at |-> "read", total |-> e.Total]
  /\ UNCHANGED <<iterationCount, testCases, pc, i, todo, name, step, e, err, ctxDone, rr,
                 csv, faulty, cmds, history, untorn, aborted, binary, swept, output,
                 drainer>>

\* e.CPUTime is assigned, and the deferred wg.Done() runs
SamplerWrite ==
  /\ pc \in {"run", "deferred"}
  /\ sampler.at = "read"
  /\ e' = [e EXCEPT !.CPUTime = CPUTimeOf(sampler.total)]
  /\ sampler' = [sampler EXCEPT !.at = "done"]
  /\ UNCHANGED <<iterationCount, testCases, pc, i, todo, name, step, err, ctxDone, rr,
                 csv, faulty, cmds, history, untorn, aborted, binary, swept, output,
                 drainer>>

\* for range cr.C() ends: the channel was closed when cr.Run returned
Drained ==
  /\ pc \in {"run", "deferred"}
  /\ drainer = "draining"
  /\ sampler.at # "sampling"
  /\ drainer' = "done"
  /\ UNCHANGED <<iterationCount, testCases, pc, i, todo, name, step, e, err, ctxDone, rr,
                 csv, faulty, cmds, history, untorn, aborted, binary, swept, output,
                 sampler>>

\* A deviating variant, for sensitivity: the deferred function not waiting for the goroutines
JoinedDetached(s, d) == TRUE

\* A deviating variant, for sensitivity: the wait group counting a goroutine that never calls Done
JoinedNever(s, d) == FALSE

\* wg.Wait() returns: both goroutines have called wg.Done()
Joined(s, d) == s.at = "done" /\ d = "done"

\* the deferred function ends and runIteration returns e and err to main
Return ==
  /\ pc = "deferred"
  /\ Joined(sampler, drainer)
  /\ pc' = "returned"
  /\ UNCHANGED <<iterationCount, testCases, i, todo, name, step, e, err, ctxDone, rr, csv,
                 faulty, cmds, history, untorn, aborted, binary, swept, output, routines>>

(***************************************************************************)
(* main, after runIteration returned                                       *)
(***************************************************************************)
\* string(e.ExitCode): the conversion of an integer to a string yields the one
\* character whose code point is that number, and U+FFFD for a number that is no code
\* point.  A text is given as the sequence of the code points of its characters.
RuneString(c) ==
  IF c < 0 \/ c > 1114111 \/ c \in 55296..57343 THEN <<65533>> ELSE <<c>>

\* ds: fmt.Sprintf("%.3f", d.Seconds()), the duration rounded to milliseconds; a tick
\* is 0.4 ms, and the text is given as its count of milliseconds
ds(d) == (4 * d + 5) \div 10

\* the fields of one data row
Fields(n, x, k) ==
  [name |-> n, iteration |-> k, version |-> x.Version, exitcode |-> RuneString(x.ExitCode),
   error |-> x.Error, startup |-> ds(x.Startup), apiserver |-> ds(x.APIAnswering),
   kubernetes |-> ds(x.KubernetesSvc), dnssvc |-> ds(x.DNSSvc),
   apprunning |-> ds(x.AppRunning), dnsanswering |-> ds(x.DNSAnswering),
   cputime |-> ds(x.CPUTime), total |-> ds(x.Total)]

\* the result with e.Error = err.Error() when runIteration returned an error
WithError(x, k) == IF k = "nil" THEN x ELSE [x EXCEPT !.Error = ErrorText(k)]

\* A deviating variant, for sensitivity: every failure fatal, as in the hard-coded variant
FatalAlways(k, it) == k # "nil"

\* A deviating variant, for sensitivity: no failure fatal
FatalNever(k, it) == FALSE

\* whether main ends the program (klog.Exitf) on error k in iteration it
Fatal(k, it) == k # "nil" /\ it = 0

\* whether main writes a row for iteration it: if i == 0 { continue }
Recorded(it) == it # 0

\* the body of the range loop after the call: klog.Exitf on a dry-run error, no row
\* in iteration 0, one row otherwise: c.Write(fields); c.Flush()
AfterRun ==
  /\ pc = "returned"
  /\ IF Fatal(err, i)
     THEN /\ pc' = "exited"
          /\ e' = WithError(e, err)
          /\ UNCHANGED <<csv, buf, rr, err, cmds, routines>>
     ELSE /\ pc' = "range"
          /\ LET w == [out |-> csv, buf |-> buf]
                 v == IF Recorded(i)
                      THEN Flush(Write(w, Fields(name, WithError(e, err), i)))
                      ELSE w
             IN csv' = v.out /\ buf' = v.buf
          /\ e' = NoResult
          /\ rr' = NoRun
          /\ err' = "nil"
          /\ cmds' = <<>>
          /\ sampler' = NoSampler
          /\ drainer' = "idle"
  /\ UNCHANGED <<iterationCount, testCases, i, todo, name, step, ctxDone, faulty,
                 history, untorn, aborted, binary, swept, header>>

Next ==
  \/ WriteHeader
  \/ CleanupLoop
  \/ IterationLoop
  \/ RangeLoop
  \/ VersionProbe
  \/ Startup
  \/ APIAnswering
  \/ KubernetesSvc
  \/ DNSSvc
  \/ AppRunning
  \/ AppReachable
  \/ DNSAnswering
  \/ Teardown
  \/ Deadline
  \/ Killed
  \/ SamplerRead
  \/ SamplerWrite
  \/ Drained
  \/ Return
  \/ AfterRun

Spec == Init /\ [][Next]_vars

(***************************************************************************)
(* The program under fair scheduling.  main and runIteration are one       *)
(* sequential goroutine whose every step is the call of an external        *)
(* command that terminates or a statement of the program; the two other    *)
(* goroutines are runnable once the context is done, and the Go scheduler  *)
(* runs a runnable goroutine.  So a step that stays possible is taken.     *)
(***************************************************************************)
SpecFair == Spec /\ WF_vars(Next)

(***************************************************************************)
(* RetryRun alone: one call, on a command of any behaviour.                *)
(***************************************************************************)
InitRetry ==
  /\ iterationCount = 0
  /\ testCases = {}
  /\ pc = "retry"
  /\ i = 0
  /\ todo = {}
  /\ name = ""
  /\ step = "none"
  /\ e = NoResult
  /\ err = "nil"
  /\ ctxDone = FALSE
  /\ \E b \in Behaviours : rr = [NoRun EXCEPT !.cmd = "pending", !.b = b]
  /\ csv = <<>>
  /\ faulty = 0
  /\ cmds = <<>>
  /\ history = <<>>
  /\ untorn = {}
  /\ aborted = {}
  /\ binary = <<>>
  /\ swept = [n \in Names |-> 0]
  /\ header = 0
  /\ buf = <<>>
  /\ sampler = NoSampler
  /\ drainer = "idle"

RetryCall ==
  /\ pc = "retry"
  /\ rr.cmd = "pending"
  /\ LET s == RetryRun(rr.b)
     IN rr' = [ExitCode |-> s.ExitCode, Duration |-> s.Duration, err |-> s.err,
               runs |-> s.runs, spawned |-> s.spawned, cmd |-> "retry", b |-> rr.b]
  /\ UNCHANGED <<iterationCount, testCases, pc, i, todo, name, step, e, err, ctxDone, csv,
                 faulty, cmds, history, untorn, aborted, binary, swept, output, routines>>

SpecRetry == InitRetry /\ [][RetryCall]_vars

(***************************************************************************)
(* The arguments of the kubectl commands alone: the six argument vectors   *)
(* one invocation builds, for a binary of any name.                        *)
(***************************************************************************)
\* the pieces binary names are made of
Fragments == {Kind, Minikube, K3d, <<"/">>, <<"x">>}

\* the first n pieces of f, joined
RECURSIVE Join(_, _)
Join(f, n) == IF n = 0 THEN <<>> ELSE Join(f, n - 1) \o f[n]

\* the binary names: up to MaxParts pieces; the empty name is that of an empty setup line
Binaries == {Join(f, n) : f \in [1..MaxParts -> Fragments], n \in 0..MaxParts}

InitArgs ==
  /\ iterationCount = 0
  /\ testCases = {}
  /\ pc = "args"
  /\ i = 0
  /\ todo = {}
  /\ name = ""
  /\ step = "none"
  /\ e = NoResult
  /\ err = "nil"
  /\ ctxDone = FALSE
  /\ rr = NoRun
  /\ csv = <<>>
  /\ faulty = 0
  /\ cmds = <<>>
  /\ history = <<>>
  /\ untorn = {}
  /\ aborted = {}
  /\ binary \in Binaries
  /\ swept = [n \in Names |-> 0]
  /\ header = 0
  /\ buf = <<>>
  /\ sampler = NoSampler
  /\ drainer = "idle"

\* extraArgs is chosen and the six kubectl commands are built, in the order of the source
BuildArgs ==
  /\ pc = "args"
  /\ pc' = "built"
  /\ cmds' = [k \in 1..6 |->
               [cmd |-> Commands[k + 2], Duration |-> 0, err |-> "nil",
                args |-> Args(Commands[k + 2], binary), spawned |-> 0]]
  /\ UNCHANGED <<iterationCount, testCases, i, todo, name, step, e, err, ctxDone, rr, csv,
                 faulty, history, untorn, aborted, binary, swept, output, routines>>

SpecArgs == InitArgs /\ [][BuildArgs]_vars

(***************************************************************************)
(* The hard-coded variant (src/time-to-k8s.go): the API-ready phase of its *)
(* runIteration.  Its Run is the Run above without a context; its RetryRun *)
(* is the loop above with a ceiling of 1000 attempts.  The phase lists the *)
(* pods through RetryRun in a loop of its own, which it leaves when the    *)
(* output of a listing contains "kube-system".                             *)
(***************************************************************************)
\* the attempt ceiling of RetryRun in the hard-coded variant
HardCodedCeiling == 1000

\* the loop condition of its RetryRun
RetryGuardHardCoded(s) == s.attempts < HardCodedCeiling

\* one pass of its loop: the condition, then the body
RetryBodyHardCoded(b, s) ==
  IF s.returned THEN s
  ELSE IF ~RetryGuardHardCoded(s)
  THEN [s EXCEPT !.returned = TRUE]
  ELSE LET r == Run(FALSE, FALSE, Outcome(b, s.runs))
           d == s.duration + r.Duration
       IN [ExitCode |-> r.ExitCode,
           Duration |-> d,
           err      |-> r.err,
           duration |-> d,
           attempts |-> IF r.err = "nil" THEN s.attempts ELSE s.attempts + 1,
           returned |-> r.err = "nil",
           runs     |-> s.runs + 1,
           spawned  |-> s.spawned + r.spawned]

RECURSIVE RetryPassesHardCoded(_, _, _)
RetryPassesHardCoded(b, s, n) ==
  IF s.returned \/ n = 0 THEN s
  ELSE IF n = 1 THEN RetryBodyHardCoded(b, s)
  ELSE LET h == n \div 2
       IN RetryPassesHardCoded(b, RetryPassesHardCoded(b, s, h), n - h)

\* the behaviours `kubectl get po -A` draws from: it answers at once, after a while,
\* on the last attempt RetryRun allows, or never
ListingMenu ==
  {[Nominal EXCEPT !.dOk = d] : d \in DurSet}
  \cup {[Nominal EXCEPT !.fails = k, !.failKind = "mixed", !.dAlt = 2] : k \in 1..MaxTransient}
  \cup {[Nominal EXCEPT !.fails = HardCodedCeiling - 1, !.dFail = 0, !.dAlt = 0]}
  \cup {[Nominal EXCEPT !.broken = TRUE, !.code = c] : c \in ExitCodes}
  \cup {[Nominal EXCEPT !.broken = TRUE, !.failKind = "start"]}

\* RetryRun(cmd) of the hard-coded variant, computed once for the behaviours of the menu
RetryTableHardCoded ==
  [b \in ListingMenu |-> RetryPassesHardCoded(b, RetryInit, 2 * HardCodedCeiling + 2)]
RetryRunHardCoded(b) == RetryTableHardCoded[b]

\* the text the loop looks for, and what a successful listing may print: nothing
\* (the API server knows no pod yet), a pod of another namespace, a pod of kube-system
KubeSystem == <<"k", "u", "b", "e", "-", "s", "y", "s", "t", "e", "m">>
Listings ==
  {<<>>,
   <<"d", "e", "f", "a", "u", "l", "t", " ", "n", "c">>,
   <<"k", "u", "b", "e", "-", "p", "u", "b", "l", "i", "c", " ", "x">>,
   KubeSystem \o <<" ", "e", "t", "c", "d">>,
   <<"N", "S", " ">> \o KubeSystem \o <<" ", "d", "n", "s">>}

\* e := ExperimentResult{Name: name, ...} when the phase begins: the version and the
\* startup duration are set, Running is zero
InitListing ==
  /\ iterationCount = 0
  /\ testCases = {}
  /\ pc = "listing"
  /\ i = 0
  /\ todo = {}
  /\ name = ""
  /\ step = "getpo"
  /\ \E d \in DurSet :
       e = [Name |-> "minikube", Version |-> "v1", Startup |-> d, Running |-> 0,
            Deployment |-> 0, Execution |-> 0, Total |-> 0]
  /\ err = "nil"
  /\ ctxDone = FALSE
  /\ rr = [NoRun EXCEPT !.cmd = "setup"]
  /\ csv = <<>>
  /\ faulty = 0
  /\ cmds = <<>>
  /\ history = <<>>
  /\ untorn = {}
  /\ aborted = {}
  /\ binary = Minikube
  /\ swept = [n \in Names |-> 0]
  /\ header = 0
  /\ buf = <<>>
  /\ sampler = NoSampler
  /\ drainer = "idle"

\* One round of the loop `for { ... }`: the pods are listed through RetryRun; its
\* error makes runIteration return; otherwise its duration is added to e.Running,
\* and the loop is left if the output contains "kube-system" and repeated if not.
ListPods ==
  /\ pc = "listing"
  /\ \E b \in ListingMenu, out \in Listings :
       LET s == RetryRunHardCoded(b)
           stdout == IF s.err = "nil" THEN out ELSE <<>>
       IN /\ rr' = [ExitCode |-> s.ExitCode, Duration |-> s.Duration, err |-> s.err,
                    runs |-> s.runs, spawned |-> s.spawned, cmd |-> "getpo", b |-> b,
                    Stdout |-> stdout]
          /\ IF s.err # "nil"
             THEN /\ err' = s.err
                  /\ pc' = "failed"
                  /\ UNCHANGED e
             ELSE /\ e.Running + s.Duration <= MaxRunning
                  /\ e' = [e EXCEPT !.Running = e.Running + s.Duration]
                  /\ pc' = IF Contains(stdout, KubeSystem) THEN "left" ELSE "listing"
                  /\ UNCHANGED err
  /\ UNCHANGED <<iterationCount, testCases, i, todo, name, step, ctxDone, csv, faulty,
                 cmds, history, untorn, aborted, binary, swept, output, routines>>

\* The phase under fair scheduling: runIteration is sequential, and a call of
\* RetryRun returns when every process it spawns terminates.
SpecListing == InitListing /\ [][ListPods]_vars /\ WF_vars(ListPods)

(***************************************************************************)
(* The claims.                                                             *)
(***************************************************************************)
Last(q) == q[Len(q)]

\* the commands after command c in the order of the source
Later(c) == {Commands[k] : k \in (Pos(c) + 1)..Len(Commands)}

\* the commands whose duration runIteration stores in a field of its own
Timed == {"setup", "getpo", "getsvc", "getdns", "apply", "nc", "nslookup"}

\* the field of result x that holds the duration of command c
Field(c, x) ==
  CASE c = "setup"    -> x.Startup
    [] c = "getpo"    -> x.APIAnswering
    [] c = "getsvc"   -> x.KubernetesSvc
    [] c = "getdns"   -> x.DNSSvc
    [] c = "apply"    -> x.AppRunning
    [] c = "nc"       -> x.AppRunning
    [] c = "nslookup" -> x.DNSAnswering

\* the column of row w that holds the duration of command c
Column(c, w) ==
  CASE c = "setup"    -> w.startup
    [] c = "getpo"    -> w.apiserver
    [] c = "getsvc"   -> w.kubernetes
    [] c = "getdns"   -> w.dnssvc
    [] c = "apply"    -> w.apprunning
    [] c = "nc"       -> w.apprunning
    [] c = "nslookup" -> w.dnsanswering

\* the duration command c returned in the current invocation if it succeeded, else 0
Took(c) ==
  IF \E k \in 1..Len(cmds) : cmds[k].cmd = c /\ cmds[k].err = "nil"
  THEN cmds[CHOOSE k \in 1..Len(cmds) : cmds[k].cmd = c].Duration
  ELSE 0

\* the current invocation has returned; the command it failed on, "none" if it did not
HasReturned == pc = "returned"
FailedAt == Last(history).at

\* the current invocation has returned an error from one of the commands before teardown
AbortedRun == HasReturned /\ FailedAt \notin {"none", "teardown"}

\* the current invocation has returned, all commands before teardown having succeeded
CompletedRun == HasReturned /\ FailedAt \in {"none", "teardown"}

\* the rows of the output tagged with test case n and iteration k
RowsOf(n, k) == {w \in 1..Len(csv) : csv[w].name = n /\ csv[w].iteration = k}

(* C1: a failure of runIteration in a recording iteration (i >= 1) does not end the
   program: the program exits only in iteration 0 and otherwise goes on until every
   test case of every iteration 0..N has been run; the failed (test case, i) pair
   has exactly one row, whose error column is non-empty and whose columns of the
   phases after the failing one are zero. *)
C1_RecordingFailureIsRecorded ==
  /\ pc = "exited" => i = 0
  /\ pc \in {"done", "exited"} \/ ENABLED Next
  /\ pc = "done" =>
       /\ \A n \in testCases, k \in 0..iterationCount :
            \E h \in 1..Len(history) : history[h].name = n /\ history[h].i = k
       /\ \A h \in 1..Len(history) :
            (history[h].i >= 1 /\ history[h].err # "nil") =>
              /\ Cardinality(RowsOf(history[h].name, history[h].i)) = 1
              /\ \A w \in RowsOf(history[h].name, history[h].i) :
                   /\ csv[w].error # ""
                   /\ \A d \in Later(history[h].at) \cap Timed : Column(d, csv[w]) = 0
                   /\ history[h].at # "teardown" => csv[w].total = 0

\* C1 witness: the program has ended normally although a recording run failed on a
\* kubectl command, and another run followed that failure
C1_Witness ==
  /\ pc = "done"
  /\ \E h \in 1..Len(history) :
       /\ history[h].i >= 1
       /\ history[h].at = "getsvc"
       /\ h < Len(history)

(* C2: if runIteration returns an error in iteration 0 (the dry run), the next step
   of the program ends it: no further test case is run, no later iteration starts,
   and the output holds no data row then; nothing happens after the exit. *)
C2_DryRunFailureExits ==
  [][/\ (pc = "returned" /\ i = 0 /\ err # "nil") =>
          (pc' = "exited" /\ csv' = <<>> /\ history' = history /\ i' = 0 /\ todo' = todo)
     /\ pc = "exited" => (csv = <<>> /\ pc' = "exited")]_vars

\* C2 witness: the program has exited in the dry run while a test case was still to
\* be run and recording iterations were still to come
C2_Witness ==
  /\ pc = "exited"
  /\ i = 0
  /\ todo # {}
  /\ iterationCount > 0
  /\ csv = <<>>

\* RetryRun has returned for a command that never succeeds
Exhausted == rr.cmd = "retry" /\ rr.b.broken

\* RetryRun has returned for a command that fails rr.b.fails times and then succeeds
Recovered == rr.cmd = "retry" /\ ~rr.b.broken

\* the attempts among the first n of a command behaving as b that start a process
Started(b, n) == {k \in 0..(n - 1) : Outcome(b, k).kind # "start"}

\* the durations of the first n attempts of a command behaving as b, summed
RECURSIVE SumDur(_, _)
SumDur(b, n) == IF n = 0 THEN 0 ELSE SumDur(b, n - 1) + Outcome(b, n - 1).dur

(* C3 as stated: given a command whose every attempt fails, RetryRun spawns
   exactly AttemptCeiling processes and returns the last attempt's result and
   error.  Refuted by a command that cannot be started: no process is spawned. *)
C3_SpawnsCeilingProcesses ==
  Exhausted =>
    /\ rr.spawned = AttemptCeiling
    /\ rr.err = Outcome(rr.b, AttemptCeiling - 1).kind

(* C3 amended: given a command whose every attempt fails, RetryRun makes exactly
   AttemptCeiling attempts (calls of Run), never fewer or more; each attempt spawns
   one process unless the command cannot be started, so at most AttemptCeiling
   processes are spawned; it returns the exit code and the error of the last
   attempt. *)
C3_AttemptsCeiling ==
  Exhausted =>
    /\ rr.runs = AttemptCeiling
    /\ rr.spawned = Cardinality(Started(rr.b, AttemptCeiling))
    /\ rr.spawned <= AttemptCeiling
    /\ rr.err = Outcome(rr.b, AttemptCeiling - 1).kind
    /\ rr.err # "nil"
    /\ rr.ExitCode = Run(FALSE, FALSE, Outcome(rr.b, AttemptCeiling - 1)).ExitCode

\* C3 witness: RetryRun gave up on a command whose attempts alternate between not
\* starting and exiting non-zero
C3_Witness ==
  /\ Exhausted
  /\ rr.b.failKind = "mixed"
  /\ rr.runs = AttemptCeiling
  /\ rr.spawned < AttemptCeiling

(* C4 as stated: given a command that fails K times and then succeeds, RetryRun
   spawns exactly K+1 processes, returns a nil error and the sum of the durations
   of all K+1 attempts.  Refuted by a failing attempt that could not be started. *)
C4_SpawnsKPlusOne ==
  Recovered =>
    /\ rr.spawned = rr.b.fails + 1
    /\ rr.err = "nil"
    /\ rr.Duration = SumDur(rr.b, rr.b.fails + 1)

(* C4 amended: given a command that fails K times and then succeeds (K below the
   ceiling), RetryRun makes exactly K+1 attempts, spawning one process for each
   attempt that could be started, returns a nil error, and the returned Duration
   is the sum of the durations of all K+1 attempts. *)
C4_AttemptsKPlusOne ==
  Recovered =>
    /\ rr.runs = rr.b.fails + 1
    /\ rr.spawned = Cardinality(Started(rr.b, rr.b.fails + 1))
    /\ rr.err = "nil"
    /\ rr.ExitCode = 0
    /\ rr.Duration = SumDur(rr.b, rr.b.fails + 1)

\* C4 witness: MaxFails failures, then a success whose own duration is not the sum
C4_Witness ==
  /\ Recovered
  /\ rr.b.fails = MaxFails
  /\ rr.runs = MaxFails + 1
  /\ rr.Duration > rr.b.dOk

(* C5: once the deadline of an invocation has fired while one of the retried kubectl
   commands is due or being retried, that command is not started to a normal
   completion: the invocation starts no later command and returns an error. *)
C5_DeadlineStopsRetrying ==
  [][(pc = "run" /\ ctxDone /\ step \in Retried \ {"teardown"}) =>
       /\ pc' = "run" => step' = step
       /\ pc' = "deferred" => err' # "nil"]_vars

(* C6: the invocation calls its commands in the order version, setup, getpo, getsvc,
   getdns, apply, nc, nslookup, teardown; after a command failed no other command
   is called, and the invocation returns the result filled in so far, with the
   failing command's exit code and a non-nil error. *)
C6_FixedOrderAbortOnFailure ==
  /\ \A k \in 1..Len(cmds) : cmds[k].cmd = Commands[k]
  /\ \A k \in 1..(Len(cmds) - 1) : cmds[k].err = "nil"
  /\ pc = "run" =>
       /\ \A k \in 1..Len(cmds) : cmds[k].err = "nil"
       /\ step = Commands[Len(cmds) + 1]
  /\ HasReturned =>
       /\ err = Last(cmds).err
       /\ err = "nil" => Len(cmds) = Len(Commands)
       /\ err # "nil" => (FailedAt = Last(cmds).cmd /\ e.ExitCode = rr.ExitCode)
       /\ \A d \in Timed \ {"apply", "nc"} : Field(d, e) = Took(d)
       /\ e.AppRunning = Took("apply") + Took("nc")

\* C6 witness: an invocation has returned on a failure of the fifth command, after
\* four commands that succeeded
C6_Witness ==
  /\ HasReturned
  /\ err # "nil"
  /\ Len(cmds) = 5
  /\ FailedAt = "getdns"
  /\ e.Startup > 0

(* C7 as stated: every invocation, also one that aborts on a failed phase, is followed
   by its test case's teardown before the setup command of the next invocation is
   spawned: no setup is spawned while a cluster set up earlier is not torn down. *)
C7_TeardownBeforeNextSetup ==
  (pc = "run" /\ step = "setup") => untorn = {}

(* C7 amended: an invocation whose commands before teardown all succeed calls its
   test case's teardown (through RetryRun) before it returns, and so before the
   setup command of the next invocation is spawned; an invocation that aborts on a
   failed command returns without calling teardown, and only such an invocation
   leaves a cluster that is not torn down when the next one starts. *)
C7_TeardownAfterCompletedRun ==
  /\ \A n \in untorn : n \in aborted \/ (pc = "run" /\ n = name)
  /\ CompletedRun => (Last(cmds).cmd = "teardown" /\ name \notin untorn)
  /\ AbortedRun => \A k \in 1..Len(cmds) : cmds[k].cmd # "teardown"

\* C7 witness: in a recording iteration a setup is about to be spawned after an
\* earlier invocation completed, and no cluster is left over
C7_Witness ==
  /\ pc = "run"
  /\ step = "setup"
  /\ i >= 1
  /\ history # <<>>
  /\ Last(history).i >= 1
  /\ untorn = {}

(* C8: in every result of an invocation whose commands before teardown all succeeded
   (whether or not teardown succeeded), Total = Startup + APIAnswering +
   KubernetesSvc + DNSSvc + AppRunning + DNSAnswering, AppRunning is the sum of the
   durations RetryRun returned for the manifest and for the TCP probe, and every
   duration is >= 0. *)
C8_TotalIsSumOfPhases ==
  CompletedRun =>
    /\ e.Total = e.Startup + e.APIAnswering + e.KubernetesSvc + e.DNSSvc
                 + e.AppRunning + e.DNSAnswering
    /\ e.AppRunning = Took("apply") + Took("nc")
    /\ \A d \in Timed \ {"apply", "nc"} : Field(d, e) = Took(d)
    /\ \A d \in Timed : Field(d, e) >= 0
    /\ e.Total >= 0

\* C8 witness: a completed invocation whose manifest and TCP probe both took time,
\* and whose teardown failed
C8_Witness ==
  /\ CompletedRun
  /\ FailedAt = "teardown"
  /\ Took("apply") > 0
  /\ Took("nc") > 0
  /\ e.AppRunning > Took("nc")
  /\ e.Total > e.AppRunning

(* C9 as stated: the record of an aborted invocation that reaches the row-writing
   code has a non-empty Error and a zero duration for the failing phase and for
   every phase after it.  Refuted by a failing TCP probe: AppRunning holds the
   duration of the manifest. *)
C9_FailingPhaseIsZero ==
  (AbortedRun /\ Recorded(i) /\ ~Fatal(err, i)) =>
    /\ WithError(e, err).Error # ""
    /\ \A d \in (Later(FailedAt) \cup {FailedAt}) \cap Timed : Field(d, WithError(e, err)) = 0

(* C9 amended: the record of an aborted invocation that reaches the row-writing code
   has a non-empty Error, a zero duration for every phase after the failing one, and
   a zero duration for the failing phase itself unless the failing command is the
   TCP probe, which shares AppRunning with the manifest: AppRunning then holds the
   manifest's duration.  The phases completed before the failure hold their
   durations, and Total is zero. *)
C9_UnreachedPhasesAreZero ==
  (AbortedRun /\ Recorded(i) /\ ~Fatal(err, i)) =>
    LET x == WithError(e, err)
    IN /\ x.Error # ""
       /\ \A d \in Later(FailedAt) \cap Timed : Field(d, x) = 0
       /\ FailedAt \in Timed \ {"nc"} => Field(FailedAt, x) = 0
       /\ FailedAt = "nc" => x.AppRunning = Took("apply")
       /\ \A d \in Timed \ {"apply", "nc"} : Field(d, x) = Took(d)
       /\ x.Total = 0

\* C9 witness: a recording invocation aborted on the TCP probe, its record holding
\* the manifest's duration in AppRunning
C9_Witness ==
  /\ AbortedRun
  /\ i >= 1
  /\ FailedAt = "nc"
  /\ e.AppRunning > 0
  /\ e.DNSAnswering = 0

(* C10: for iteration count N >= 0 and T test cases, a run of the program that ends
   without a dry-run failure has written exactly N*T data rows: exactly one for each
   pair (test case, i) with i in 1..N, and none for iteration 0, whatever runs
   failed. *)
C10_OneRowPerRecordingRun ==
  pc = "done" =>
    /\ Len(csv) = iterationCount * Cardinality(testCases)
    /\ \A n \in testCases, k \in 1..iterationCount : Cardinality(RowsOf(n, k)) = 1
    /\ \A w \in 1..Len(csv) : csv[w].name \in testCases /\ csv[w].iteration \in 1..iterationCount

\* C10 witness: one test case and two iterations gave two rows, one for each
\* iteration, the first of them of a failed run
C10_Witness ==
  /\ pc = "done"
  /\ Cardinality(testCases) = 1
  /\ iterationCount = 2
  /\ Len(csv) = 2
  /\ csv[1].error # ""
  /\ csv[1].iteration = 1
  /\ csv[2].iteration = 2

\* the tools the code knows: the substring it looks for, the context it passes
Tools ==
  {[sub |-> Kind, ctx |-> "kind-kind"], [sub |-> Minikube, ctx |-> "minikube"],
   [sub |-> K3d, ctx |-> "k3d-k3s-default"]}

\* the tools whose substring the binary name bin contains
Matching(bin) == {t \in Tools : Contains(bin, t.sub)}

\* how many context arguments the argument vector a holds
ContextCount(a) == Cardinality({k \in 1..Len(a) : a[k] = "--context"})

\* what the argument vector of the k-th command built holds before the command's own arguments
Prefix(k) == SubSeq(cmds[k].args, 1, Len(cmds[k].args) - Len(OwnArgs(cmds[k].cmd)))

(* C11: the six kubectl commands of one invocation carry the same context argument
   pair, chosen from the binary's name by substring match: the pair of the tool whose
   substring the name contains, no context argument when the name contains none of
   the three, and for a name that contains several substrings the pair of exactly one
   of the tools it names, never two pairs. *)
C11_OneContextPerInvocation ==
  pc = "built" =>
    /\ {cmds[k].cmd : k \in 1..Len(cmds)} = Kubectl
    /\ \A k \in 1..Len(cmds) :
         /\ cmds[k].args = Prefix(k) \o OwnArgs(cmds[k].cmd)
         /\ Prefix(k) = Prefix(1)
         /\ ContextCount(cmds[k].args) <= 1
         /\ Matching(binary) = {} => Prefix(k) = <<>>
         /\ Matching(binary) # {} =>
              \E t \in Matching(binary) : Prefix(k) = <<"--context", t.ctx>>

\* C11 witness: the arguments were built for a binary whose name contains the
\* substrings of two tools, and hold one context
C11_Witness ==
  /\ pc = "built"
  /\ Cardinality(Matching(binary)) = 2
  /\ Len(cmds) = 6
  /\ ContextCount(cmds[6].args) = 1

(* C12: when an invocation returns an error because a command exited with a non-zero
   code c (for a command called through RetryRun: its last attempt), the result's
   ExitCode is c; for a command killed at the deadline it is the -1 that ExitCode()
   reports; when the invocation returns a nil error, ExitCode is 0. *)
C12_ExitCodeIsPreserved ==
  HasReturned =>
    /\ err # "nil" => rr.cmd = FailedAt
    /\ err = "exit" =>
         /\ Outcome(rr.b, rr.runs - 1).kind = "exit"
         /\ e.ExitCode = Outcome(rr.b, rr.runs - 1).code
         /\ e.ExitCode # 0
    /\ err = "killed" => e.ExitCode = -1
    /\ err = "nil" => e.ExitCode = 0

\* C12 witness: an invocation has returned after RetryRun gave up on a command whose
\* attempts all exited with code 2
C12_Witness ==
  /\ HasReturned
  /\ err = "exit"
  /\ FailedAt \in Kubectl
  /\ rr.runs = AttemptCeiling
  /\ e.ExitCode = 2

\* the decimal digits of n >= 0, as code points
RECURSIVE Digits(_)
Digits(n) == IF n < 10 THEN <<48 + n>> ELSE Digits(n \div 10) \o <<48 + (n % 10)>>

\* the decimal text of the integer c, as code points
Decimal(c) == IF c < 0 THEN <<45>> \o Digits(0 - c) ELSE Digits(c)

(* C13: the exit-code column of every data row written is the decimal text of the
   ExitCode of the result the row is written for ("1" for 1, "0" for 0).  Refuted by
   every row: the column holds the character whose code point is the exit code. *)
C13_ExitCodeColumnIsDecimal ==
  [][Len(csv') = Len(csv) + 1 => Last(csv').exitcode = Decimal(e.ExitCode)]_vars

(* C14: when the commands before teardown all succeeded and teardown then fails (every
   one of its attempts failing), runIteration returns a non-nil error and a result
   whose six phase durations and Total are what they were before teardown started:
   the failure changes ExitCode alone, nothing but CPUTime changes until main has the
   result, and in a recording iteration main writes that result as a row. *)
C14_TeardownFailureKeepsPhases ==
  [][/\ (pc = "run" /\ step = "teardown" /\ pc' = "deferred" /\ err' # "nil") =>
          /\ e' = [e EXCEPT !.ExitCode = rr'.ExitCode]
          /\ rr'.runs = AttemptCeiling
          /\ e'.Total = e.Startup + e.APIAnswering + e.KubernetesSvc + e.DNSSvc
                        + e.AppRunning + e.DNSAnswering
     /\ (pc \in {"deferred", "returned"} /\ pc' \in {"deferred", "returned"}) =>
          e' = [e EXCEPT !.CPUTime = e'.CPUTime]
     /\ (pc = "returned" /\ FailedAt = "teardown" /\ Recorded(i)) =>
          /\ pc' = "range"
          /\ Len(csv') = Len(csv) + 1
          /\ Last(csv').name = name /\ Last(csv').iteration = i
          /\ Last(csv').error # ""
          /\ \A d \in Timed : Column(d, Last(csv')) = ds(Field(d, e))
          /\ Last(csv').total = ds(e.Total)]_vars

\* C14 witness: the output holds the row of a recording run whose teardown failed,
\* with the run's total in it
C14_Witness ==
  \E h \in 1..Len(history) :
    /\ history[h].at = "teardown"
    /\ history[h].i >= 1
    /\ \E w \in RowsOf(history[h].name, history[h].i) :
         /\ csv[w].error # ""
         /\ csv[w].total > 0
         /\ csv[w].apprunning > 0

(* C15: before the first invocation of runIteration starts, the cleanup loop has
   called the teardown of every configured test case exactly once, each call a single
   attempt that is not retried; a failing teardown there does not end the program, and
   the remaining teardowns and the iterations follow. *)
C15_SweepBeforeFirstRun ==
  /\ pc \in {"header", "sweep"} =>
       /\ history = <<>> /\ cmds = <<>> /\ i = 0
       /\ ENABLED Next
  /\ pc = "sweep" =>
       \A n \in Names : swept[n] = IF n \in testCases \ todo THEN 1 ELSE 0
  /\ pc \notin {"header", "sweep", "args", "built", "retry"} =>
       \A n \in Names : swept[n] = IF n \in testCases THEN 1 ELSE 0
  /\ rr.cmd = "cleanup" => (rr.runs = 1 /\ rr.spawned <= 1)
  /\ pc = "exited" => history # <<>>

\* C15 witness: the dry run of a test case has started after the cleanup loop, whose
\* last teardown failed, went over two test cases
C15_Witness ==
  /\ pc = "run"
  /\ i = 0
  /\ step = "version"
  /\ rr.cmd = "cleanup"
  /\ rr.err # "nil"
  /\ \A n \in Names : swept[n] = 1

\* how often the current invocation has called command c
Calls(c) == Cardinality({k \in 1..Len(cmds) : cmds[k].cmd = c})

(* C16 as stated: the version probe and the setup command are each spawned exactly
   once per invocation and never retried, a failed attempt makes runIteration return
   at once, and every call of Run spawns exactly one process.  Refuted by a binary
   that cannot be started and by a deadline that fired before the command: no
   process is spawned. *)
C16_SpawnedExactlyOnce ==
  rr.cmd \in ContextBound \cup {"cleanup"} =>
    /\ rr.runs = 1
    /\ rr.spawned = 1
    /\ (rr.cmd \in ContextBound /\ rr.err # "nil") => pc \in {"deferred", "returned", "exited"}

(* C16 amended: the version probe and the setup command are each called through Run
   at most once per invocation (setup only after the version probe succeeded) and
   never retried: one failed attempt of either makes runIteration return that error
   at once.  A call of Run makes one attempt, which starts one process unless the
   command cannot be started or its context is already done, and then none; the
   Duration of the result is that of the attempt, on failure as on success. *)
C16_CalledOnceNeverRetried ==
  /\ \A c \in ContextBound : Calls(c) <= 1
  /\ Calls("setup") = 1 => (Calls("version") = 1 /\ cmds[1].err = "nil")
  /\ rr.cmd \in ContextBound \cup {"cleanup"} =>
       /\ rr.runs = 1
       /\ rr.spawned = IF rr.err \in {"start", "ctx"} THEN 0 ELSE 1
       /\ rr.err \in {"nil", "exit", "start"} => rr.Duration = Outcome(rr.b, 0).dur
       /\ rr.Duration >= 0
  /\ (rr.cmd \in ContextBound /\ rr.err # "nil") =>
       /\ pc \in {"deferred", "returned", "exited"}
       /\ err = rr.err
       /\ Last(cmds).cmd = rr.cmd
       /\ Last(history).at = rr.cmd

\* C16 witness: runIteration has returned after the one attempt of the setup command,
\* which exited with a non-zero code
C16_Witness ==
  /\ HasReturned
  /\ rr.cmd = "setup"
  /\ rr.err = "exit"
  /\ rr.runs = 1
  /\ rr.spawned = 1
  /\ Len(cmds) = 2

\* the place of a name in the ascending order of the names
Rank(n) == CASE n = "kind" -> 1 [] n = "minikube" -> 2

\* the first of the names S in ascending order
First(S) == CHOOSE n \in S : \A m \in S : Rank(n) <= Rank(m)

(* C17 as stated: in the cleanup loop and in every iteration the test cases are
   processed in ascending order of their names.  Refuted: a range over a Go map may
   yield "minikube" before "kind". *)
C17_AscendingNameOrder ==
  [][(pc \in {"sweep", "range"} /\ todo' # todo) => todo' = todo \ {First(todo)}]_vars

(* C17 amended: the cleanup loop and every iteration process each configured test
   case exactly once, one after the other, in an order the program does not fix
   and that may differ from one loop to the next; a loop ends only when no test case
   is left, and the configuration is never changed. *)
C17_EachTestCaseOncePerLoop ==
  [][/\ testCases' = testCases
     /\ iterationCount' = iterationCount
     /\ pc = "header" => todo = testCases
     /\ (pc = "loop" /\ pc' = "range") => todo' = testCases
     /\ (pc = "sweep" /\ pc' = "sweep") =>
          \E n \in todo : todo' = todo \ {n} /\ swept'[n] = swept[n] + 1
     /\ (pc = "range" /\ pc' = "run") =>
          \E n \in todo : todo' = todo \ {n} /\ name' = n
     /\ (pc \in {"sweep", "range"} /\ pc' = "loop") => todo = {}
     /\ pc \notin {"sweep", "range", "loop"} => todo' = todo]_vars

\* C17 witness: the dry run processed "minikube" before "kind", and iteration 1
\* processed "kind" before "minikube"
C17_Witness ==
  /\ Len(history) = 4
  /\ history[1].name = "minikube" /\ history[1].i = 0
  /\ history[2].name = "kind" /\ history[2].i = 0
  /\ history[3].name = "kind" /\ history[3].i = 1
  /\ history[4].name = "minikube" /\ history[4].i = 1

(* C18 as stated: the goroutines do not block the return of runIteration, which
   returns to its caller even if a goroutine has not finished.  Refuted: the deferred
   function waits for both of them. *)
C18_ReturnNotBlocked ==
  pc = "deferred" => ENABLED Return

(* C18 amended: the goroutines are cancelled through the context of the invocation (the
   sampler leaves cr.Run only once the context is done, by the deadline or by the
   cancel() of the deferred function), and runIteration waits for both of them before
   it returns: it has returned only when both have finished, and while one has not,
   it does not return. *)
C18_ReturnWaitsForGoroutines ==
  /\ pc = "deferred" => (ctxDone /\ ENABLED Next)
  /\ sampler.at \in {"read", "done"} => ctxDone
  /\ drainer = "done" => sampler.at \in {"read", "done"}
  /\ pc = "run" => (sampler.at # "idle" /\ drainer # "idle")
  /\ HasReturned => (sampler.at = "done" /\ drainer = "done")
  /\ (pc = "deferred" /\ (sampler.at # "done" \/ drainer # "done")) => ~ENABLED Return

\* C18 witness: the commands of an invocation have all succeeded and its deferred
\* function is waiting for the sampler, which is still in cr.Run
C18_Witness ==
  /\ pc = "deferred"
  /\ err = "nil"
  /\ sampler.at = "sampling"
  /\ drainer = "draining"
  /\ ~ENABLED Return

(* C20: the goroutine reads e.Total only after runIteration's last write to it, and has
   written e.CPUTime before the caller reads the result: the CPUTime of the result
   returned is Busy times the Total of the result returned, also when the deadline
   fired while commands were still running. *)
C20_CPUTimeOfReturnedTotal ==
  HasReturned =>
    /\ sampler.at = "done"
    /\ sampler.total = e.Total
    /\ e.CPUTime = CPUTimeOf(e.Total)

\* the invocations of recording iterations that have reached a return statement
RecordingRuns == {h \in 1..Len(history) : history[h].i >= 1}

(* C19: the header row is written and flushed exactly once, before the cleanup loop
   and before any iteration; every data row is flushed right after it is written:
   whenever an external command may be running (in the cleanup loop and inside
   runIteration), the file holds the header and every row written so far, one for
   each recording run that has returned to main, and the writer buffers nothing. *)
C19_RowsFlushedBeforeNextCommand ==
  /\ header <= 1
  /\ pc = "header" => (header = 0 /\ csv = <<>> /\ history = <<>> /\ \A n \in Names : swept[n] = 0)
  /\ pc \in {"sweep", "loop", "range", "run", "deferred", "returned", "done", "exited"} =>
       header = 1
  /\ pc \in {"sweep", "run", "deferred"} =>
       /\ buf = <<>>
       /\ pc = "run" => Len(csv) = Cardinality(RecordingRuns)
       /\ pc = "deferred" => Len(csv) = Cardinality(RecordingRuns) - (IF i >= 1 THEN 1 ELSE 0)
  /\ pc = "done" => (buf = <<>> /\ Len(csv) = Cardinality(RecordingRuns))

\* C19 witness: the setup command of a later run is due while the file holds the
\* header and the row of an earlier run
C19_Witness ==
  /\ pc = "run"
  /\ step = "setup"
  /\ i >= 1
  /\ header = 1
  /\ Len(csv) = 1
  /\ buf = <<>>

\* the processes the first n commands of the current invocation have spawned
RECURSIVE SpawnedBy(_)
SpawnedBy(n) == IF n = 0 THEN 0 ELSE SpawnedBy(n - 1) + cmds[n].spawned

\* the current invocation and the program stay within their bounds: a command is
\* called at most once in an invocation, a one-shot command spawns at most one
\* process and a retried command at most 5000, which makes at most 2 + 7*5000
\* processes; the invocations that have reached a return are at most (N+1)*T
BoundedRun ==
  /\ \A k \in 1..Len(Commands) : Calls(Commands[k]) <= 1
  /\ \A k \in 1..Len(cmds) :
       cmds[k].spawned <= IF cmds[k].cmd \in ContextBound THEN 1 ELSE 5000
  /\ Cardinality({k \in 1..Len(cmds) : cmds[k].cmd \in ContextBound}) <= 2
  /\ Cardinality({k \in 1..Len(cmds) : cmds[k].cmd \notin ContextBound}) <= 7
  /\ SpawnedBy(Len(cmds)) <= 2 + 7 * 5000
  /\ Len(history) <= (iterationCount + 1) * Cardinality(testCases)

\* an invocation in progress (in its commands or in its deferred function) is left
\* in one way only, by returning to main
LeftByReturning ==
  (pc \in {"run", "deferred"} /\ pc' \notin {"run", "deferred"}) => pc' = "returned"

(* C21: when every spawned process terminates and the sampler stops once its context
   is cancelled, every invocation of runIteration eventually returns, having spawned
   at most 2 + 7*5000 processes (two one-shot commands, seven retried commands of at
   most 5000 attempts each), and the program eventually terminates, after at most
   (N+1)*T invocations.  The program eventually ends, and no invocation is left
   otherwise than by returning: so every invocation has returned by then. *)
C21_EveryRunReturnsAndProgramEnds ==
  /\ []BoundedRun
  /\ [][LeftByReturning]_vars
  /\ <>(pc \in {"done", "exited"})

\* C21 witness: the last of the (N+1)*T invocations of a program with two test cases
\* and one recording iteration has returned after its teardown was attempted 5000
\* times, each attempt a process, the eight commands before it one process each
C21_Witness ==
  /\ HasReturned
  /\ iterationCount = 1 /\ Cardinality(testCases) = 2
  /\ Len(history) = (iterationCount + 1) * Cardinality(testCases)
  /\ Last(cmds).cmd = "teardown"
  /\ Last(cmds).spawned = 5000
  /\ SpawnedBy(Len(cmds)) = 8 + 5000
  /\ sampler.at = "done" /\ drainer = "done"

\* the sum of the six phase durations of result x
PhaseSum(x) ==
  x.Startup + x.APIAnswering + x.KubernetesSvc + x.DNSSvc + x.AppRunning + x.DNSAnswering

\* every command the current invocation has called took time
PositiveDurations == \A k \in 1..Len(cmds) : cmds[k].Duration > 0

(* C22: in every result runIteration returns, Total is zero or the sum of the six
   phase durations; when every command took time, Total is non-zero exactly when the
   commands before teardown all succeeded, and the result of an aborted invocation
   has Total = 0 whatever its earlier phases took. *)
C22_TotalIsZeroOrTheSum ==
  HasReturned =>
    /\ e.Total \in {0, PhaseSum(e)}
    /\ PositiveDurations => (e.Total # 0 <=> CompletedRun)
    /\ AbortedRun => e.Total = 0

\* C22 witness: an invocation has returned the failure of a command after the
\* cluster and the API server took time: Total is zero and the phases are not
C22_Witness ==
  /\ AbortedRun
  /\ PositiveDurations
  /\ e.Startup > 0
  /\ e.APIAnswering > 0
  /\ PhaseSum(e) > 0
  /\ e.Total = 0

(* C23: in the hard-coded variant the API-ready phase of runIteration ends whenever
   every spawned process terminates, so that it spawns a bounded number of
   pod-listing processes, also when every listing succeeds without "kube-system" in
   its output; when the phase is left, Running has grown by the duration of every
   listing round.  Refuted by listings that succeed and never show a kube-system
   pod: the loop lists again, for ever. *)
C23_ListingPhaseEnds ==
  /\ <>(pc # "listing")
  /\ [][rr'.err = "nil" => e'.Running = e.Running + rr'.Duration]_vars

====
